---- MODULE Spec2Model ----
(***************************************************************************)
(* The task-collection service of the Task Manager API: the in-memory     *)
(* task store, its validation, and the request handlers that create,      *)
(* read, update, delete and list tasks; and its web client: the page that *)
(* lists the tasks and toggles them, and the form that creates one.       *)
(*                                                                         *)
(* JavaScript values are tagged records, so that a request body can carry *)
(* a value of any JSON type in any field and the handlers' behaviour on   *)
(* it (a TypeError, a loose truthiness test, a strict equality) is what   *)
(* the code does.  Strings are sequences of one-character strings.        *)
(***************************************************************************)
EXTENDS Integers, Sequences, FiniteSets, TLC

VARIABLES
  tasks,    \* the in-memory task store, a sequence of Task objects
  now,      \* the instant new Date() returns
  nextId,   \* the ids randomUUID() has handed out are 1..nextId-1
  req,      \* the last request received
  res,      \* the response sent to it
  deleted,  \* history: the ids whose DELETE has succeeded
  page,     \* the state of the Home page: tasks, loading, error
  form,     \* the state of TaskForm: its fields, flags and messages
  calls     \* the promises of the client's updateTask and createTask calls

vars == <<tasks, now, nextId, req, res, deleted, page, form, calls>>

\* The client's variables, which no handler of the server touches.
client == <<page, form, calls>>

\* ------------------------------------------------------------------ bounds
\* Number of ids the id generator hands out (tasks ever created).
MaxId == 2
\* The same, in the specification of the request bodies.
MaxInputId == 1
\* Last instant of the clock.
MaxNow == 1
\* Number of updateTask calls the page makes.
MaxCalls == 2

\* ------------------------------------------------------- program constants
MaxTitleLength == 200
MaxDescriptionLength == 1000
StatusOk == 200
StatusCreated == 201
StatusNoContent == 204
StatusBadRequest == 400
StatusNotFound == 404
StatusInternal == 500

\* --------------------------------------------------------------- JS values
Undefined == [type |-> "undefined", b |-> FALSE, n |-> 0, s |-> <<>>]
Null == [type |-> "null", b |-> FALSE, n |-> 0, s |-> <<>>]
Bool(x) == [type |-> "boolean", b |-> x, n |-> 0, s |-> <<>>]
Num(k) == [type |-> "number", b |-> FALSE, n |-> k, s |-> <<>>]
Str(q) == [type |-> "string", b |-> FALSE, n |-> 0, s |-> q]

IsString(v) == v.type = "string"

\* JavaScript truthiness: !v is ~Truthy(v).
Truthy(v) ==
  CASE v.type = "undefined" -> FALSE
    [] v.type = "null" -> FALSE
    [] v.type = "boolean" -> v.b
    [] v.type = "number" -> v.n # 0
    [] v.type = "string" -> v.s # <<>>

\* String.prototype.trim
IsWhitespace(c) == c = " "

RECURSIVE TrimStart(_)
TrimStart(q) ==
  IF q = <<>> \/ ~IsWhitespace(Head(q)) THEN q ELSE TrimStart(Tail(q))

RECURSIVE TrimEnd(_)
TrimEnd(q) ==
  IF q = <<>> \/ ~IsWhitespace(q[Len(q)]) THEN q
  ELSE TrimEnd(SubSeq(q, 1, Len(q) - 1))

Trim(q) == TrimEnd(TrimStart(q))

\* String.prototype.toLowerCase
LowerChar(c) ==
  CASE c = "A" -> "a"
    [] c = "B" -> "b"
    [] OTHER -> c

ToLowerCase(q) == [i \in 1..Len(q) |-> LowerChar(q[i])]

\* String.prototype.includes
Includes(q, term) ==
  \E i \in 0..(Len(q) - Len(term)) : SubSeq(q, i + 1, i + Len(term)) = term

\* n copies of the character c
Repeat(c, n) == [i \in 1..n |-> c]

\* ------------------------------------------------------------------ errors
NoError == [name |-> "none", statusCode |-> 0, code |-> "", message |-> ""]

ApiError(statusCode, code, message) ==
  [name |-> "ApiError", statusCode |-> statusCode, code |-> code, message |-> message]

\* What the runtime throws on a property read of null/undefined or on a call
\* of something that is not a function.
TypeError == [name |-> "TypeError", statusCode |-> 0, code |-> "", message |-> "TypeError"]

NotFound == ApiError(StatusNotFound, "TASK_NOT_FOUND", "Task not found")

ValidationError(message) == ApiError(StatusBadRequest, "VALIDATION_ERROR", message)

\* ---------------------------------------------------------------- responses
Response(status, kind, list) ==
  [status |-> status, kind |-> kind, code |-> "", message |-> "", tasks |-> list,
   stats |-> <<>>]

\* Mutation: the middleware without the ApiError branch, every error a 500.
ErrorResponseAlwaysInternal(err) ==
  [status |-> StatusInternal, kind |-> "error", code |-> "INTERNAL_ERROR",
   message |-> err.message, tasks |-> <<>>, stats |-> <<>>]

\* The error handling middleware.
ErrorResponse(err) ==
  IF err.name = "ApiError"
  THEN [status |-> err.statusCode, kind |-> "error", code |-> err.code,
        message |-> err.message, tasks |-> <<>>, stats |-> <<>>]
  ELSE [status |-> StatusInternal, kind |-> "error", code |-> "INTERNAL_ERROR",
        message |-> err.message, tasks |-> <<>>, stats |-> <<>>]

\* ---------------------------------------------------------------- requests
EmptyBody ==
  [title |-> Undefined, description |-> Undefined, completed |-> Undefined,
   category |-> Undefined, priority |-> Undefined, id |-> Undefined,
   createdAt |-> Undefined]

EmptyQuery ==
  [completed |-> Undefined, category |-> Undefined, priority |-> Undefined,
   search |-> Undefined]

Request(op, id, body, query) == [op |-> op, id |-> id, body |-> body, query |-> query]

\* ------------------------------------------------------------------- store
\* tasks.find((t) => t.id === id): the index of the first task with the id, 0
\* when there is none.
FindIndex(list, id) ==
  IF \E i \in 1..Len(list) : list[i].id = id
  THEN CHOOSE i \in 1..Len(list) :
         /\ list[i].id = id
         /\ \A j \in 1..(i - 1) : list[j].id # id
  ELSE 0

validCategories == {<<"w", "o", "r", "k">>, <<"p", "e", "r", "s", "o", "n", "a", "l">>,
                    <<"o", "t", "h", "e", "r">>}

validPriorities == {<<"l", "o", "w">>, <<"m", "e", "d", "i", "u", "m">>,
                    <<"h", "i", "g", "h">>}

\* The counters calculateStats starts from.
StatsInit(list) ==
  [total |-> Len(list),
   completed |-> 0,
   active |-> 0,
   byCategory |-> [c \in validCategories |-> 0],
   byPriority |-> [p \in validPriorities |-> 0]]

\* The body of the forEach: if (task.completed) counts every truthy value.
CountTask(stats, task) ==
  [stats EXCEPT !.completed = IF Truthy(task.completed) THEN @ + 1 ELSE @,
                !.byCategory[task.category.s] = @ + 1,
                !.byPriority[task.priority.s] = @ + 1]

RECURSIVE ForEachTask(_, _)
ForEachTask(stats, list) ==
  IF list = <<>> THEN stats
  ELSE ForEachTask(CountTask(stats, Head(list)), Tail(list))

calculateStats(list) ==
  LET counted == ForEachTask(StatsInit(list), list)
  IN  [counted EXCEPT !.active = counted.total - counted.completed]

\* Mutation: a title is required of an update too.
TitleRequiredAlways(data, isUpdate) == ~Truthy(data.title)

\* if (!isUpdate && !data.title)
TitleRequired(data, isUpdate) == ~isUpdate /\ ~Truthy(data.title)

\* Mutation: the length of the title is measured before trimming.
TitleTooLongUntrimmed(data) == Len(data.title.s) > MaxTitleLength

\* trimmedTitle.length > 200
TitleTooLong(data) == Len(Trim(data.title.s)) > MaxTitleLength

\* Mutation: the length of the description is measured after trimming.
DescriptionTooLongTrimmed(data) ==
  IsString(data.description) /\ Len(Trim(data.description.s)) > MaxDescriptionLength

\* data.description !== undefined && data.description.length > 1000: the
\* length of a number or a boolean is undefined, which is not greater.
DescriptionTooLong(data) ==
  IsString(data.description) /\ Len(data.description.s) > MaxDescriptionLength

\* Mutation: the priority is looked up in the list of the categories.
PriorityInvalidAmongCategories(data) ==
  data.priority # Undefined
  /\ ~(IsString(data.priority) /\ data.priority.s \in validCategories)

\* data.priority !== undefined && !validPriorities.includes(data.priority)
PriorityInvalid(data) ==
  data.priority # Undefined
  /\ ~(IsString(data.priority) /\ data.priority.s \in validPriorities)

\* Mutation: the title rules are applied to a create only.
validateTaskInputTitleOnCreate(data, isUpdate) ==
  IF ~isUpdate /\ ~Truthy(data.title)
    THEN ValidationError("Title is required")
  ELSE IF ~isUpdate /\ ~IsString(data.title)
    THEN TypeError
  ELSE IF ~isUpdate /\ Len(Trim(data.title.s)) = 0
    THEN ValidationError("Title cannot be empty")
  ELSE IF ~isUpdate /\ Len(Trim(data.title.s)) > MaxTitleLength
    THEN ValidationError("Title must not exceed 200 characters")
  ELSE IF data.description = Null
    THEN TypeError
  ELSE IF IsString(data.description) /\ Len(data.description.s) > MaxDescriptionLength
    THEN ValidationError("Description must not exceed 1000 characters")
  ELSE IF data.category # Undefined
          /\ ~(IsString(data.category) /\ data.category.s \in validCategories)
    THEN ValidationError("Category must be work, personal, or other")
  ELSE IF data.priority # Undefined
          /\ ~(IsString(data.priority) /\ data.priority.s \in validPriorities)
    THEN ValidationError("Priority must be low, medium, or high")
  ELSE NoError

\* Mutation: the enumerations are checked before the description.
validateTaskInputEnumerationsFirst(data, isUpdate) ==
  IF TitleRequired(data, isUpdate)
    THEN ValidationError("Title is required")
  ELSE IF data.title # Undefined /\ ~IsString(data.title)
    THEN TypeError
  ELSE IF data.title # Undefined /\ Len(Trim(data.title.s)) = 0
    THEN ValidationError("Title cannot be empty")
  ELSE IF data.title # Undefined /\ TitleTooLong(data)
    THEN ValidationError("Title must not exceed 200 characters")
  ELSE IF data.category # Undefined
          /\ ~(IsString(data.category) /\ data.category.s \in validCategories)
    THEN ValidationError("Category must be work, personal, or other")
  ELSE IF PriorityInvalid(data)
    THEN ValidationError("Priority must be low, medium, or high")
  ELSE IF data.description = Null
    THEN TypeError
  ELSE IF DescriptionTooLong(data)
    THEN ValidationError("Description must not exceed 1000 characters")
  ELSE NoError

validateTaskInput(data, isUpdate) ==
  IF TitleRequired(data, isUpdate)
    THEN ValidationError("Title is required")
  ELSE IF data.title # Undefined /\ ~IsString(data.title)
    THEN TypeError
  ELSE IF data.title # Undefined /\ Len(Trim(data.title.s)) = 0
    THEN ValidationError("Title cannot be empty")
  ELSE IF data.title # Undefined /\ TitleTooLong(data)
    THEN ValidationError("Title must not exceed 200 characters")
  ELSE IF data.description = Null
    THEN TypeError
  ELSE IF DescriptionTooLong(data)
    THEN ValidationError("Description must not exceed 1000 characters")
  ELSE IF data.category # Undefined
          /\ ~(IsString(data.category) /\ data.category.s \in validCategories)
    THEN ValidationError("Category must be work, personal, or other")
  ELSE IF PriorityInvalid(data)
    THEN ValidationError("Priority must be low, medium, or high")
  ELSE NoError

\* Mutation: the task is built from the whole body, its completed flag too.
NewTaskFromBody(body, id, t) ==
  [id |-> id,
   title |-> Str(Trim(body.title.s)),
   description |-> IF body.description = Undefined THEN Undefined
                   ELSE Str(Trim(body.description.s)),
   completed |-> IF body.completed # Undefined THEN body.completed ELSE Bool(FALSE),
   category |-> IF Truthy(body.category) THEN body.category
                ELSE Str(<<"p", "e", "r", "s", "o", "n", "a", "l">>),
   priority |-> IF Truthy(body.priority) THEN body.priority
                ELSE Str(<<"m", "e", "d", "i", "u", "m">>),
   createdAt |-> t,
   updatedAt |-> t]

\* The task object built by POST /api/tasks.
NewTask(body, id, t) ==
  [id |-> id,
   title |-> Str(Trim(body.title.s)),
   description |-> IF body.description = Undefined THEN Undefined
                   ELSE Str(Trim(body.description.s)),
   completed |-> Bool(FALSE),
   category |-> IF Truthy(body.category) THEN body.category
                ELSE Str(<<"p", "e", "r", "s", "o", "n", "a", "l">>),
   priority |-> IF Truthy(body.priority) THEN body.priority
                ELSE Str(<<"m", "e", "d", "i", "u", "m">>),
   createdAt |-> t,
   updatedAt |-> t]

\* What POST /api/tasks throws before it stores anything: the validation's
\* error, or the TypeError of description?.trim() on a value without trim.
CreateError(body) ==
  IF validateTaskInput(body, FALSE) # NoError THEN validateTaskInput(body, FALSE)
  ELSE IF body.description # Undefined /\ ~IsString(body.description) THEN TypeError
  ELSE NoError

\* The assignments of PUT /api/tasks/:id, in the order of the code.
SetTitle(task, body) ==
  IF body.title # Undefined THEN [task EXCEPT !.title = Str(Trim(body.title.s))]
  ELSE task

SetDescription(task, body) ==
  IF body.description # Undefined
  THEN [task EXCEPT !.description = Str(Trim(body.description.s))]
  ELSE task

SetCompleted(task, body) ==
  IF body.completed # Undefined THEN [task EXCEPT !.completed = body.completed]
  ELSE task

\* Mutation: a patch without a category puts the task back in the default
\* category.
SetCategoryOrDefault(task, body) ==
  IF body.category # Undefined THEN [task EXCEPT !.category = body.category]
  ELSE [task EXCEPT !.category = Str(<<"p", "e", "r", "s", "o", "n", "a", "l">>)]

SetCategory(task, body) ==
  IF body.category # Undefined THEN [task EXCEPT !.category = body.category]
  ELSE task

SetPriority(task, body) ==
  IF body.priority # Undefined THEN [task EXCEPT !.priority = body.priority]
  ELSE task

\* Mutation: the timestamp refresh written to the wrong field.
SetCreatedAt(task, t) == [task EXCEPT !.createdAt = t]

SetUpdatedAt(task, t) == [task EXCEPT !.updatedAt = t]

\* Mutation: the patch's id is copied onto the task with the other fields.
UpdatedTaskAssignId(task, body, t) ==
  LET patched == SetUpdatedAt(
        SetPriority(SetCategory(SetCompleted(SetDescription(SetTitle(task, body), body),
                                             body), body), body), t)
  IN  IF body.id # Undefined THEN [patched EXCEPT !.id = body.id.n] ELSE patched

\* Mutation: the patch's createdAt is copied onto the task with the other fields.
UpdatedTaskAssignCreatedAt(task, body, t) ==
  LET patched == SetUpdatedAt(
        SetPriority(SetCategory(SetCompleted(SetDescription(SetTitle(task, body), body),
                                             body), body), body), t)
  IN  IF body.createdAt # Undefined THEN [patched EXCEPT !.createdAt = body.createdAt.n]
      ELSE patched

\* Mutation: updatedAt is refreshed only when the patch changed a field.
UpdatedTaskTouchIfChanged(task, body, t) ==
  LET patched == SetPriority(SetCategory(SetCompleted(
                   SetDescription(SetTitle(task, body), body), body), body), body)
  IN  IF patched = task THEN task ELSE SetUpdatedAt(patched, t)

UpdatedTask(task, body, t) ==
  SetUpdatedAt(
    SetPriority(SetCategory(SetCompleted(SetDescription(SetTitle(task, body), body),
                                         body), body), body), t)

\* Mutation: the body is validated before the task is looked up.
UpdateErrorValidateFirst(list, id, body) ==
  IF validateTaskInput(body, TRUE) # NoError THEN validateTaskInput(body, TRUE)
  ELSE IF FindIndex(list, id) = 0 THEN NotFound
  ELSE IF body.description # Undefined /\ ~IsString(body.description) THEN TypeError
  ELSE NoError

\* What PUT /api/tasks/:id throws: NotFound from findTaskById, then the
\* validation's error, then the TypeError of description.trim() on a value
\* without trim.
UpdateError(list, id, body) ==
  IF FindIndex(list, id) = 0 THEN NotFound
  ELSE IF validateTaskInput(body, TRUE) # NoError THEN validateTaskInput(body, TRUE)
  ELSE IF body.description # Undefined /\ ~IsString(body.description) THEN TypeError
  ELSE NoError

\* Mutation: each field is validated and assigned in turn, so a title is
\* already written when a later field fails validation.
UpdateStoreFieldByField(list, id, body, t) ==
  IF FindIndex(list, id) = 0 THEN list
  ELSE IF UpdateError(list, id, body) = NoError
  THEN [list EXCEPT ![FindIndex(list, id)] = UpdatedTask(list[FindIndex(list, id)], body, t)]
  ELSE IF IsString(body.title) /\ Len(Trim(body.title.s)) \in 1..MaxTitleLength
  THEN [list EXCEPT ![FindIndex(list, id)] = SetTitle(list[FindIndex(list, id)], body)]
  ELSE list

\* The store PUT /api/tasks/:id leaves. findTaskById and validateTaskInput
\* throw before any assignment; description.trim() throws after the title has
\* been assigned.
UpdateStore(list, id, body, t) ==
  IF FindIndex(list, id) = 0 \/ validateTaskInput(body, TRUE) # NoError THEN list
  ELSE IF UpdateError(list, id, body) # NoError
  THEN [list EXCEPT ![FindIndex(list, id)] = SetTitle(list[FindIndex(list, id)], body)]
  ELSE [list EXCEPT ![FindIndex(list, id)] = UpdatedTask(list[FindIndex(list, id)], body, t)]

UpdateResponse(list, id, body, t) ==
  IF UpdateError(list, id, body) # NoError THEN ErrorResponse(UpdateError(list, id, body))
  ELSE Response(StatusOk, "task", <<UpdatedTask(list[FindIndex(list, id)], body, t)>>)

\* ------------------------------------------------------------------ filters
FilterCompleted(list, query) ==
  IF query.completed # Undefined
  THEN SelectSeq(list, LAMBDA t : t.completed = Bool(query.completed = Str(<<"t", "r", "u", "e">>)))
  ELSE list

FilterCategory(list, query) ==
  IF Truthy(query.category)
  THEN SelectSeq(list, LAMBDA t : t.category = query.category)
  ELSE list

\* Mutation: the priority filter starts again from the whole store.
FilterPriorityOfStore(list, query) ==
  IF Truthy(query.priority)
  THEN SelectSeq(tasks, LAMBDA t : t.priority = query.priority)
  ELSE list

FilterPriority(list, query) ==
  IF Truthy(query.priority)
  THEN SelectSeq(list, LAMBDA t : t.priority = query.priority)
  ELSE list

\* Mutation: the optional chaining on the description is dropped.
HasDescriptionAlways(t) == TRUE

\* task.description?.toLowerCase(): undefined when the description is nullish.
HasDescription(t) == t.description # Undefined /\ t.description # Null

SearchMatches(t, searchTerm) ==
  \/ Includes(ToLowerCase(t.title.s), searchTerm)
  \/ HasDescription(t) /\ Includes(ToLowerCase(t.description.s), searchTerm)

\* The search callback throws on a title or a present description without
\* toLowerCase.
SearchThrows(t) ==
  \/ ~IsString(t.title)
  \/ HasDescription(t) /\ ~IsString(t.description)

\* Mutation: the search term is compared as typed.
FilterSearchAsTyped(list, query) ==
  IF Truthy(query.search)
  THEN SelectSeq(list, LAMBDA t : SearchMatches(t, query.search.s))
  ELSE list

FilterSearch(list, query) ==
  IF Truthy(query.search)
  THEN SelectSeq(list, LAMBDA t : SearchMatches(t, ToLowerCase(query.search.s)))
  ELSE list

FilteredTasks(list, query) ==
  FilterSearch(FilterPriority(FilterCategory(FilterCompleted(list, query), query), query),
               query)

ListError(list, query) ==
  IF Truthy(query.search)
     /\ \/ ~IsString(query.search)
        \/ \E i \in 1..Len(FilterPriority(FilterCategory(FilterCompleted(list, query), query), query)) :
             SearchThrows(FilterPriority(FilterCategory(FilterCompleted(list, query), query), query)[i])
  THEN TypeError
  ELSE NoError

\* Mutation: the id is derived from the size of the collection.
FreshIdFromLength == Len(tasks) + 1

\* randomUUID(): an id no earlier call has returned.
FreshId == nextId

\* Mutation: the new task is put in front.
Unshift(list, task) == <<task>> \o list

\* tasks.push(task)
Push(list, task) == Append(list, task)

\* Mutation: splice without a delete count removes the rest of the array.
SpliceToEnd(list, taskIndex) == SubSeq(list, 1, taskIndex - 1)

\* tasks.splice(taskIndex, 1), with taskIndex counted from 1.
Splice(list, taskIndex) ==
  SubSeq(list, 1, taskIndex - 1) \o SubSeq(list, taskIndex + 1, Len(list))

\* ----------------------------------------------------------------- actions
\* Time passes.
Tick ==
  /\ now < MaxNow
  /\ now' = now + 1
  /\ UNCHANGED <<tasks, nextId, req, res, deleted>>
  /\ UNCHANGED client

\* POST /api/tasks
Create(body, maxId) ==
  /\ req' = Request("create", 0, body, EmptyQuery)
  /\ IF CreateError(body) # NoError
     THEN /\ res' = ErrorResponse(CreateError(body))
          /\ UNCHANGED <<tasks, nextId>>
     ELSE /\ nextId <= maxId
          /\ tasks' = Push(tasks, NewTask(body, FreshId, now))
          /\ nextId' = nextId + 1
          /\ res' = Response(StatusCreated, "task", <<NewTask(body, FreshId, now)>>)
  /\ UNCHANGED <<now, deleted>>
  /\ UNCHANGED client

\* PUT /api/tasks/:id
Update(id, body) ==
  /\ req' = Request("update", id, body, EmptyQuery)
  /\ tasks' = UpdateStore(tasks, id, body, now)
  /\ res' = UpdateResponse(tasks, id, body, now)
  /\ UNCHANGED <<now, nextId, deleted>>
  /\ UNCHANGED client

\* DELETE /api/tasks/:id
Delete(id) ==
  /\ req' = Request("delete", id, EmptyBody, EmptyQuery)
  /\ LET taskIndex == FindIndex(tasks, id) IN
       IF taskIndex = 0
       THEN /\ res' = ErrorResponse(NotFound)
            /\ UNCHANGED <<tasks, deleted>>
       ELSE /\ tasks' = Splice(tasks, taskIndex)
            /\ res' = Response(StatusNoContent, "empty", <<>>)
            /\ deleted' = deleted \cup {id}
  /\ UNCHANGED <<now, nextId>>
  /\ UNCHANGED client

\* GET /api/tasks/:id
GetById(id) ==
  /\ req' = Request("get", id, EmptyBody, EmptyQuery)
  /\ res' = IF FindIndex(tasks, id) = 0 THEN ErrorResponse(NotFound)
            ELSE Response(StatusOk, "task", <<tasks[FindIndex(tasks, id)]>>)
  /\ UNCHANGED <<tasks, now, nextId, deleted>>
  /\ UNCHANGED client

\* Mutation: the filters are applied to the store itself, not to a copy.
ListFilteringStore(query) ==
  /\ req' = Request("list", 0, EmptyBody, query)
  /\ res' = IF ListError(tasks, query) # NoError
            THEN ErrorResponse(ListError(tasks, query))
            ELSE Response(StatusOk, "tasks", FilteredTasks(tasks, query))
  /\ tasks' = IF ListError(tasks, query) # NoError THEN tasks
              ELSE FilteredTasks(tasks, query)
  /\ UNCHANGED <<now, nextId, deleted>>
  /\ UNCHANGED client

\* GET /api/tasks
List(query) ==
  /\ req' = Request("list", 0, EmptyBody, query)
  /\ res' = IF ListError(tasks, query) # NoError
            THEN ErrorResponse(ListError(tasks, query))
            ELSE Response(StatusOk, "tasks", FilteredTasks(tasks, query))
  /\ UNCHANGED <<tasks, now, nextId, deleted>>
  /\ UNCHANGED client

\* GET /api/stats
Stats ==
  /\ req' = Request("stats", 0, EmptyBody, EmptyQuery)
  /\ res' = [Response(StatusOk, "stats", <<>>) EXCEPT !.stats = <<calculateStats(tasks)>>]
  /\ UNCHANGED <<tasks, now, nextId, deleted>>
  /\ UNCHANGED client

\* Mutation: the store loses its last task only.
resetStoreDropLast ==
  /\ tasks' = SubSeq(tasks, 1, Len(tasks) - 1)
  /\ UNCHANGED <<now, nextId, req, res, deleted>>
  /\ UNCHANGED client

\* resetStore(): tasks.length = 0. It is a function call of the tests, not a
\* request: no request and no response are recorded.
resetStore ==
  /\ tasks' = <<>>
  /\ UNCHANGED <<now, nextId, req, res, deleted>>
  /\ UNCHANGED client

Init ==
  /\ tasks = <<>>
  /\ now = 0
  /\ nextId = 1
  /\ req = Request("none", 0, EmptyBody, EmptyQuery)
  /\ res = Response(0, "none", <<>>)
  /\ deleted = {}
  /\ page = [tasks |-> <<>>, loading |-> TRUE, error |-> "", timers |-> 0]
  /\ form = [title |-> <<>>, description |-> <<>>, isSubmitting |-> FALSE,
             error |-> "", validationErrors |-> [title |-> "", description |-> ""],
             created |-> 0]
  /\ calls = <<>>

\* ------------------------------------------------------------------ inputs
Work == Str(<<"w", "o", "r", "k">>)
Personal == Str(<<"p", "e", "r", "s", "o", "n", "a", "l">>)
Other == Str(<<"o", "t", "h", "e", "r">>)
Low == Str(<<"l", "o", "w">>)
Medium == Str(<<"m", "e", "d", "i", "u", "m">>)
High == Str(<<"h", "i", "g", "h">>)
Urgent == Str(<<"u", "r", "g", "e", "n", "t">>)
Yes == Str(<<"y", "e", "s">>)
True == Str(<<"t", "r", "u", "e">>)
False == Str(<<"f", "a", "l", "s", "e">>)

\* ---- the store's life cycle
\* An empty patch, a title to trim, a body that carries an id and a createdAt,
\* and three bodies that fail validation: on the title, and after a valid title
\* on the description and on the priority.
Bodies ==
  { EmptyBody,
    [EmptyBody EXCEPT !.title = Str(<<" ", "a", " ">>)],
    [EmptyBody EXCEPT !.title = Str(<<"b">>), !.id = Num(1), !.createdAt = Num(1)],
    [EmptyBody EXCEPT !.title = Str(<<" ", " ">>), !.completed = Bool(TRUE)],
    [EmptyBody EXCEPT !.title = Str(<<"b">>),
                      !.description = Str(Repeat("y", MaxDescriptionLength) \o <<" ">>)],
    [EmptyBody EXCEPT !.title = Str(<<"b">>), !.priority = Work] }

Ids == 1..MaxId

Next ==
  \/ Tick
  \/ \E body \in Bodies : Create(body, MaxId)
  \/ \E id \in Ids, body \in Bodies : Update(id, body)
  \/ \E id \in Ids : Delete(id)
  \/ \E id \in Ids : GetById(id)
  \/ List(EmptyQuery)

Spec == Init /\ [][Next]_vars

\* ---- the request bodies
\* Bodies that fail validation, one for each rule.
InvalidBodies ==
  { [EmptyBody EXCEPT !.title = Str(<<>>)],
    [EmptyBody EXCEPT !.title = Str(<<" ", " ">>), !.completed = Bool(TRUE)],
    [EmptyBody EXCEPT !.title = Str(<<" ">> \o Repeat("x", MaxTitleLength + 1))],
    [EmptyBody EXCEPT !.title = Str(<<"b">>),
                      !.description = Str(Repeat("y", MaxDescriptionLength) \o <<" ">>)],
    [EmptyBody EXCEPT !.title = Str(<<"b">>), !.category = Urgent],
    [EmptyBody EXCEPT !.title = Str(<<"b">>), !.category = Str(<<>>)],
    [EmptyBody EXCEPT !.title = Str(<<"b">>), !.completed = Bool(TRUE), !.priority = Null],
    [EmptyBody EXCEPT !.title = Str(<<"b">>), !.priority = Work] }

\* Bodies that pass validation: a title to trim; a title and a description of
\* the greatest lengths with both enumerations; a completed flag that is a
\* boolean and one that is a string; a description that is a number; a title
\* and a description to trim with a completed flag.
InputBodies ==
  { [EmptyBody EXCEPT !.title = Str(<<" ", "a", " ">>)],
    [EmptyBody EXCEPT !.title = Str(<<" ", "a", " ">>),
                      !.description = Str(<<" ", "d", " ">>),
                      !.completed = Bool(TRUE)],
    [EmptyBody EXCEPT !.title = Str(<<" ">> \o Repeat("x", MaxTitleLength) \o <<" ">>),
                      !.description = Str(Repeat("y", MaxDescriptionLength)),
                      !.category = Other, !.priority = Low],
    [EmptyBody EXCEPT !.completed = Bool(TRUE)],
    [EmptyBody EXCEPT !.completed = Yes],
    [EmptyBody EXCEPT !.title = Str(<<"b">>), !.description = Num(7)] }
  \cup InvalidBodies

InputIds == 1..MaxInputId

NextInput ==
  \/ \E body \in InputBodies : Create(body, MaxInputId)
  \/ \E id \in InputIds, body \in InputBodies : Update(id, body)
  \/ \E id \in InputIds : Delete(id)
  \/ Stats

SpecInput == Init /\ [][NextInput]_vars

\* ---- the filters
\* Three tasks to create: one that is work and high with a mixed-case title,
\* one with the defaults whose description alone holds the letters a and b,
\* one that is work and medium.
ListBodies ==
  { [EmptyBody EXCEPT !.title = Str(<<"A", "b">>), !.category = Work, !.priority = High],
    [EmptyBody EXCEPT !.title = Str(<<"c">>), !.description = Str(<<"b", "A">>)],
    [EmptyBody EXCEPT !.title = Str(<<"c", "c">>), !.category = Work] }

ListPatches ==
  { [EmptyBody EXCEPT !.completed = Bool(TRUE)],
    [EmptyBody EXCEPT !.completed = Bool(FALSE)] }

\* The updates: the completed flag alone, set and cleared, on every task, and
\* a title to trim with a priority on the first task.
ListUpdates ==
  (Ids \X ListPatches)
  \cup { <<1, [EmptyBody EXCEPT !.title = Str(<<" ", "c">>), !.priority = Low]>> }

\* Every combination of the four filters, and a category and a priority that
\* are outside their enumerations or empty.
Queries ==
  [completed : {Undefined, True, False},
   category : {Undefined, Work},
   priority : {Undefined, High},
   search : {Undefined, Str(<<"B">>), Str(<<"a", "B">>), Str(<<"z">>)}]
  \cup { [EmptyQuery EXCEPT !.category = Urgent],
         [EmptyQuery EXCEPT !.category = Str(<<>>)],
         [EmptyQuery EXCEPT !.priority = Urgent, !.search = Str(<<>>)] }

NextList ==
  \/ \E body \in ListBodies : Create(body, MaxId)
  \/ \E u \in ListUpdates : Update(u[1], u[2])
  \/ \E query \in Queries : List(query)
  \/ \E id \in Ids : GetById(id)
  \/ Stats

SpecList == Init /\ [][NextList]_vars

\* ---- the order of the validation rules
\* Every combination of a title that is absent, empty, blank, too long or
\* valid with a description, a category and a priority that are each invalid
\* or valid.
ValidateBodies ==
  { [EmptyBody EXCEPT !.title = t, !.description = d, !.category = c, !.priority = p] :
      t \in { Undefined, Str(<<>>), Str(<<" ", " ">>),
              Str(<<" ">> \o Repeat("x", MaxTitleLength + 1)), Str(<<"b">>) },
      d \in { Str(Repeat("y", MaxDescriptionLength) \o <<" ">>), Str(<<"d">>) },
      c \in { Urgent, Work },
      p \in { Work, Low } }

NextValidate ==
  \/ \E body \in ValidateBodies : Create(body, MaxInputId)
  \/ \E id \in InputIds, body \in ValidateBodies : Update(id, body)

SpecValidate == Init /\ [][NextValidate]_vars

\* ---- resetting the store
NextReset ==
  \/ \E body \in ListBodies : Create(body, MaxId)
  \/ resetStore
  \/ \E id \in Ids : GetById(id)
  \/ List(EmptyQuery)
  \/ Stats

SpecReset == Init /\ [][NextReset]_vars

\* ---------------------------------------------------------------- the page
\* The promise of updateTask(id, updates) once the request is sent, with the
\* previousCompleted that the catch callback of the toggle has captured.
UpdateTaskCall(id, updates, previousCompleted) ==
  [fn |-> "updateTask", id |-> id, body |-> updates,
   previousCompleted |-> previousCompleted, stage |-> "sent", message |-> ""]

\* response.ok
ResponseOk(response) == response.status >= 200 /\ response.status <= 299

\* What the promise of updateTask becomes on the server's response: fulfilled
\* when response.ok, rejected with the server's message otherwise.
updateTaskOutcome(call, response) ==
  IF ResponseOk(response) THEN [call EXCEPT !.stage = "fulfilled"]
  ELSE [call EXCEPT !.stage = "rejected",
                    !.message = IF response.message # "" THEN response.message
                                ELSE "Failed to update task"]

\* prevTasks.map(task => task.id === id ? {...task, completed: newCompleted} : task)
OptimisticUpdate(prevTasks, id, newCompleted) ==
  [i \in 1..Len(prevTasks) |->
     IF prevTasks[i].id = id THEN [prevTasks[i] EXCEPT !.completed = newCompleted]
     ELSE prevTasks[i]]

\* Mutation: the catch callback shows the error and leaves the tasks alone.
RollbackSkipped(prevTasks, id, previousCompleted) == prevTasks

\* prevTasks.map(task => task.id === id ? {...task, completed: previousCompleted} : task)
Rollback(prevTasks, id, previousCompleted) ==
  [i \in 1..Len(prevTasks) |->
     IF prevTasks[i].id = id THEN [prevTasks[i] EXCEPT !.completed = previousCompleted]
     ELSE prevTasks[i]]

\* The effect of the page: fetchTasks() resolves with the server's list.
fetchTasksResolves ==
  /\ page.loading
  /\ req' = Request("list", 0, EmptyBody, EmptyQuery)
  /\ res' = Response(StatusOk, "tasks", FilteredTasks(tasks, EmptyQuery))
  /\ page' = [page EXCEPT !.tasks = FilteredTasks(tasks, EmptyQuery), !.loading = FALSE]
  /\ UNCHANGED <<tasks, now, nextId, deleted, form, calls>>

\* fetchTasks() rejects: the request did not reach the server.
fetchTasksRejects ==
  /\ page.loading
  /\ page' = [page EXCEPT !.error = "Network error", !.loading = FALSE]
  /\ UNCHANGED <<tasks, now, nextId, req, res, deleted, form, calls>>

\* handleToggleTask(id), for a task the page displays (it returns at once for
\* any other id): the optimistic update, then the call of updateTask.
handleToggleTask(id) ==
  /\ ~page.loading
  /\ Len(calls) < MaxCalls
  /\ FindIndex(page.tasks, id) # 0
  /\ LET previousCompleted == page.tasks[FindIndex(page.tasks, id)].completed
         newCompleted == Bool(~Truthy(previousCompleted))
     IN  /\ page' = [page EXCEPT !.tasks = OptimisticUpdate(page.tasks, id, newCompleted)]
         /\ calls' = Append(calls,
                            UpdateTaskCall(id, [EmptyBody EXCEPT !.completed = newCompleted],
                                           previousCompleted))
  /\ UNCHANGED <<tasks, now, nextId, req, res, deleted, form>>

\* fetch rejects: the request of call k does not reach the server.
NetworkFails(k) ==
  /\ k \in 1..Len(calls)
  /\ calls[k].stage = "sent"
  /\ calls' = [calls EXCEPT ![k] = [@ EXCEPT !.stage = "rejected",
                                             !.message = "Network error"]]
  /\ UNCHANGED <<tasks, now, nextId, req, res, deleted, page, form>>

\* The PUT of call k reaches the server, which handles it and answers.
PutArrives(k) ==
  /\ k \in 1..Len(calls)
  /\ calls[k].fn = "updateTask"
  /\ calls[k].stage = "sent"
  /\ req' = Request("update", calls[k].id, calls[k].body, EmptyQuery)
  /\ tasks' = UpdateStore(tasks, calls[k].id, calls[k].body, now)
  /\ res' = UpdateResponse(tasks, calls[k].id, calls[k].body, now)
  /\ calls' = [calls EXCEPT ![k] =
                 updateTaskOutcome(@, UpdateResponse(tasks, calls[k].id, calls[k].body, now))]
  /\ UNCHANGED <<now, nextId, deleted, page, form>>

\* The promise of call k is fulfilled: the toggle has no callback for that.
ToggleFulfilled(k) ==
  /\ k \in 1..Len(calls)
  /\ calls[k].fn = "updateTask"
  /\ calls[k].stage = "fulfilled"
  /\ calls' = [calls EXCEPT ![k] = [@ EXCEPT !.stage = "settled"]]
  /\ UNCHANGED <<tasks, now, nextId, req, res, deleted, page, form>>

\* The promise of call k is rejected: the catch callback of the toggle rolls
\* the task back, shows the message and starts the timer that clears it.
ToggleRejected(k) ==
  /\ k \in 1..Len(calls)
  /\ calls[k].fn = "updateTask"
  /\ calls[k].stage = "rejected"
  /\ page' = [page EXCEPT !.tasks = Rollback(page.tasks, calls[k].id,
                                             calls[k].previousCompleted),
                          !.error = calls[k].message,
                          !.timers = @ + 1]
  /\ calls' = [calls EXCEPT ![k] = [@ EXCEPT !.stage = "settled"]]
  /\ UNCHANGED <<tasks, now, nextId, req, res, deleted, form>>

\* setTimeout(() => setError(null), 3000) fires.
ClearError ==
  /\ page.timers > 0
  /\ page' = [page EXCEPT !.error = "", !.timers = @ - 1]
  /\ UNCHANGED <<tasks, now, nextId, req, res, deleted, form, calls>>

\* The task that is toggled, and the body the tasks are created with.
ToggleIds == {1}

PageBodies == { [EmptyBody EXCEPT !.title = Str(<<"a">>)] }

NextPage ==
  \/ \E body \in PageBodies : Create(body, MaxId)
  \/ \E id \in ToggleIds : Delete(id)
  \/ fetchTasksResolves
  \/ fetchTasksRejects
  \/ \E id \in ToggleIds : handleToggleTask(id)
  \/ \E k \in 1..MaxCalls : NetworkFails(k)
  \/ \E k \in 1..MaxCalls : PutArrives(k)
  \/ \E k \in 1..MaxCalls : ToggleFulfilled(k)
  \/ \E k \in 1..MaxCalls : ToggleRejected(k)
  \/ ClearError

SpecPage == Init /\ [][NextPage]_vars

\* ---------------------------------------------------------------- the form
\* The errors object validateForm builds, "" for a key it does not set.
validateFormErrors(title, description) ==
  [title |-> IF Trim(title) = <<>> THEN "Title is required"
             ELSE IF Len(Trim(title)) > MaxTitleLength
               THEN "Title must not exceed 200 characters"
             ELSE "",
   description |-> IF Len(Trim(description)) > MaxDescriptionLength
                     THEN "Description must not exceed 1000 characters"
                   ELSE ""]

\* Mutation: the form checks the title only.
validateFormTitleOnly(title, description) ==
  validateFormErrors(title, description).title = ""

\* Object.keys(errors).length === 0
validateForm(title, description) ==
  validateFormErrors(title, description) = [title |-> "", description |-> ""]

\* Mutation: the description is validated trimmed and sent as typed.
FormPayloadUntrimmed(title, description) ==
  [EmptyBody EXCEPT !.title = Str(Trim(title)),
                    !.description = IF description # <<>>
                                    THEN Str(description) ELSE Undefined]

\* The object handleSubmit passes to createTask, as JSON.stringify sends it:
\* a description that is undefined is left out of the body.
FormPayload(title, description) ==
  [EmptyBody EXCEPT !.title = Str(Trim(title)),
                    !.description = IF Trim(description) # <<>>
                                    THEN Str(Trim(description)) ELSE Undefined]

\* The promise of createTask(payload) once the request is sent.
CreateTaskCall(payload) ==
  [fn |-> "createTask", id |-> 0, body |-> payload,
   previousCompleted |-> Undefined, stage |-> "sent", message |-> ""]

\* What the promise of createTask becomes on the server's response.
createTaskOutcome(call, response) ==
  IF ResponseOk(response) THEN [call EXCEPT !.stage = "fulfilled"]
  ELSE [call EXCEPT !.stage = "rejected",
                    !.message = IF response.message # "" THEN response.message
                                ELSE "Failed to create task"]

\* handleTitleChange, on an input that is enabled.
handleTitleChange(value) ==
  /\ ~form.isSubmitting
  /\ form' = [form EXCEPT !.title = value, !.validationErrors.title = "", !.error = ""]
  /\ UNCHANGED <<tasks, now, nextId, req, res, deleted, page, calls>>

\* handleDescriptionChange, on a textarea that is enabled.
handleDescriptionChange(value) ==
  /\ ~form.isSubmitting
  /\ form' = [form EXCEPT !.description = value, !.validationErrors.description = "",
                          !.error = ""]
  /\ UNCHANGED <<tasks, now, nextId, req, res, deleted, page, calls>>

\* handleSubmit up to its await, on a button that is enabled.
handleSubmit ==
  /\ ~form.isSubmitting
  /\ IF ~validateForm(form.title, form.description)
     THEN /\ form' = [form EXCEPT !.validationErrors =
                                    validateFormErrors(form.title, form.description)]
          /\ UNCHANGED calls
     ELSE /\ form' = [form EXCEPT !.validationErrors =
                                    validateFormErrors(form.title, form.description),
                                  !.isSubmitting = TRUE,
                                  !.error = ""]
          /\ calls' = Append(calls, CreateTaskCall(FormPayload(form.title, form.description)))
  /\ UNCHANGED <<tasks, now, nextId, req, res, deleted, page>>

\* The POST of call k reaches the server, which handles it and answers.
PostArrives(k, maxId) ==
  /\ k \in 1..Len(calls)
  /\ calls[k].fn = "createTask"
  /\ calls[k].stage = "sent"
  /\ req' = Request("create", 0, calls[k].body, EmptyQuery)
  /\ IF CreateError(calls[k].body) # NoError
     THEN /\ res' = ErrorResponse(CreateError(calls[k].body))
          /\ UNCHANGED <<tasks, nextId>>
     ELSE /\ nextId <= maxId
          /\ tasks' = Push(tasks, NewTask(calls[k].body, FreshId, now))
          /\ nextId' = nextId + 1
          /\ res' = Response(StatusCreated, "task", <<NewTask(calls[k].body, FreshId, now)>>)
  /\ calls' = [calls EXCEPT ![k] = createTaskOutcome(@, res')]
  /\ UNCHANGED <<now, deleted, page, form>>

\* handleSubmit after its await, createTask fulfilled: the fields are
\* cleared, onTaskCreated is called, and finally isSubmitting is false.
SubmitFulfilled(k) ==
  /\ k \in 1..Len(calls)
  /\ calls[k].fn = "createTask"
  /\ calls[k].stage = "fulfilled"
  /\ form' = [form EXCEPT !.title = <<>>, !.description = <<>>,
                          !.validationErrors = [title |-> "", description |-> ""],
                          !.created = @ + 1,
                          !.isSubmitting = FALSE]
  /\ calls' = Splice(calls, k)
  /\ UNCHANGED <<tasks, now, nextId, req, res, deleted, page>>

\* handleSubmit after its await, createTask rejected: the message is shown,
\* and finally isSubmitting is false.
SubmitRejected(k) ==
  /\ k \in 1..Len(calls)
  /\ calls[k].fn = "createTask"
  /\ calls[k].stage = "rejected"
  /\ form' = [form EXCEPT !.error = calls[k].message, !.isSubmitting = FALSE]
  /\ calls' = Splice(calls, k)
  /\ UNCHANGED <<tasks, now, nextId, req, res, deleted, page>>

\* What is typed: a blank title, a short one to trim, 200 characters between
\* two spaces, 201 characters; no description, a short one to trim, 1000
\* characters and a space, 1001 characters.
FormTitles ==
  { <<" ", " ">>,
    <<" ", "a", " ">>,
    <<" ">> \o Repeat("x", MaxTitleLength) \o <<" ">>,
    Repeat("x", MaxTitleLength + 1) }

FormDescriptions ==
  { <<>>,
    <<" ", "d", " ">>,
    Repeat("y", MaxDescriptionLength) \o <<" ">>,
    Repeat("y", MaxDescriptionLength + 1) }

NextForm ==
  \/ \E value \in FormTitles : handleTitleChange(value)
  \/ \E value \in FormDescriptions : handleDescriptionChange(value)
  \/ handleSubmit
  \/ \E k \in 1..MaxCalls : NetworkFails(k)
  \/ \E k \in 1..MaxCalls : PostArrives(k, MaxInputId)
  \/ \E k \in 1..MaxCalls : SubmitFulfilled(k)
  \/ \E k \in 1..MaxCalls : SubmitRejected(k)

SpecForm == Init /\ [][NextForm]_vars

\* ------------------------------------------------------------------ claims
IsLive(id) == \E i \in 1..Len(tasks) : tasks[i].id = id

\* C1: a create, update or delete request that fails with ValidationError or
\* NotFound leaves the task collection exactly as it was: the same tasks in
\* the same order, every field of every task (updatedAt included) unchanged.
C1_FailedRequestLeavesStore ==
  [][(/\ req'.op \in {"create", "update", "delete"}
      /\ res'.kind = "error"
      /\ res'.code \in {"VALIDATION_ERROR", "TASK_NOT_FOUND"})
     => tasks' = tasks]_vars

\* An update of a live task, stale for an instant, was rejected on a field
\* that follows a valid title.
C1_Witness ==
  /\ req.op = "update"
  /\ res.code = "VALIDATION_ERROR"
  /\ IsLive(req.id)
  /\ tasks[FindIndex(tasks, req.id)].updatedAt < now
  /\ IsString(req.body.title)
  /\ Str(Trim(req.body.title.s)) # tasks[FindIndex(tasks, req.id)].title
  /\ Len(Trim(req.body.title.s)) > 0

\* C3: no two tasks of the live collection have the same id, also after an
\* update whose body carries an id.
C3_IdsUnique ==
  \A i, j \in 1..Len(tasks) : i # j => tasks[i].id # tasks[j].id

\* An update whose body carries the id of another live task has succeeded.
C3_Witness ==
  /\ req.op = "update"
  /\ res.status = StatusOk
  /\ req.body.id # Undefined
  /\ req.body.id.n # req.id
  /\ IsLive(req.id)
  /\ IsLive(req.body.id.n)

\* C4: every stored task has updatedAt >= createdAt (the clock never goes
\* backwards).
C4_UpdatedNotBeforeCreated ==
  \A i \in 1..Len(tasks) : tasks[i].updatedAt >= tasks[i].createdAt

\* A task was updated at a later instant than the one it was created at.
C4_Witness ==
  /\ req.op = "update"
  /\ res.status = StatusOk
  /\ \E i \in 1..Len(tasks) :
       /\ tasks[i].id = req.id
       /\ tasks[i].updatedAt > tasks[i].createdAt

\* C5: between its creation and its deletion a task keeps its id and its
\* createdAt: a step that keeps the size of the collection keeps the id at
\* every position, and a task found before and after a step has the same
\* createdAt, also when the body of an update carries an id or a createdAt.
C5_IdAndCreatedAtImmutable ==
  [][/\ Len(tasks') = Len(tasks) => \A i \in 1..Len(tasks) : tasks'[i].id = tasks[i].id
     /\ \A i \in 1..Len(tasks), j \in 1..Len(tasks') :
          tasks'[j].id = tasks[i].id => tasks'[j].createdAt = tasks[i].createdAt]_vars

\* An update whose body carries another id and another createdAt than the
\* task's has succeeded.
C5_Witness ==
  /\ req.op = "update"
  /\ res.status = StatusOk
  /\ req.body.id # Undefined
  /\ req.body.id.n # req.id
  /\ req.body.createdAt # Undefined
  /\ \E i \in 1..Len(tasks) :
       /\ tasks[i].id = req.id
       /\ tasks[i].createdAt # req.body.createdAt.n

\* C10: getById returns the stored task when its id is in the collection and
\* NotFound otherwise; once delete(id) has succeeded the id is never in the
\* collection again, no list response contains it, and every later getById,
\* update or delete of it fails with NotFound.
C10_GetByIdAndDeleteIsFinal ==
  /\ [](/\ req.op = "get" =>
             IF IsLive(req.id)
             THEN res = Response(StatusOk, "task", <<tasks[FindIndex(tasks, req.id)]>>)
             ELSE res.status = StatusNotFound /\ res.code = "TASK_NOT_FOUND"
        /\ \A id \in deleted : ~IsLive(id)
        /\ res.kind = "tasks" => \A k \in 1..Len(res.tasks) : res.tasks[k].id \notin deleted)
  /\ [][(/\ now' = now
         /\ req'.op \in {"get", "update", "delete"}
         /\ req'.id \in deleted)
        => res'.status = StatusNotFound /\ res'.code = "TASK_NOT_FOUND"]_vars

\* A getById of a deleted id has failed with NotFound after a further task
\* was created.
C10_Witness ==
  /\ req.op = "get"
  /\ req.id \in deleted
  /\ res.status = StatusNotFound
  /\ Len(tasks) > 0

\* C2: every stored task has a title of 1 to 200 characters without leading
\* or trailing whitespace, a description that is absent or of at most 1000
\* characters, a category among work, personal, other and a priority among
\* low, medium, high.
C2_StoredFieldsValid ==
  \A i \in 1..Len(tasks) :
    /\ IsString(tasks[i].title)
    /\ Len(tasks[i].title.s) \in 1..MaxTitleLength
    /\ ~IsWhitespace(tasks[i].title.s[1])
    /\ ~IsWhitespace(tasks[i].title.s[Len(tasks[i].title.s)])
    /\ \/ tasks[i].description = Undefined
       \/ IsString(tasks[i].description)
          /\ Len(tasks[i].description.s) <= MaxDescriptionLength
    /\ tasks[i].category \in {Work, Personal, Other}
    /\ tasks[i].priority \in {Low, Medium, High}

\* A task is stored with a title of 200 characters, trimmed from a longer
\* one, and a description of 1000 characters.
C2_Witness ==
  /\ req.op \in {"create", "update"}
  /\ res.status \in {StatusOk, StatusCreated}
  /\ Len(req.body.title.s) > MaxTitleLength
  /\ \E i \in 1..Len(tasks) :
       /\ Len(tasks[i].title.s) = MaxTitleLength
       /\ Len(tasks[i].description.s) = MaxDescriptionLength
       /\ tasks[i].category = Other

\* C6: the completed field of every stored task is a boolean, whatever value
\* the body of an update carried.
C6_CompletedIsBoolean ==
  \A i \in 1..Len(tasks) : tasks[i].completed.type = "boolean"

\* ---- list
InList(t, list) == \E k \in 1..Len(list) : list[k] = t

\* A filter is present when the query carries a value for it (a non-empty one
\* for category, priority and search).
TitleMatches(t, search) == Includes(ToLowerCase(t.title.s), ToLowerCase(search.s))

DescriptionMatches(t, search) ==
  /\ t.description # Undefined
  /\ Includes(ToLowerCase(t.description.s), ToLowerCase(search.s))

SatisfiesCompleted(t, query) ==
  query.completed # Undefined => t.completed = Bool(query.completed = True)

SatisfiesCategory(t, query) ==
  query.category \notin {Undefined, Str(<<>>)} => t.category = query.category

SatisfiesPriority(t, query) ==
  query.priority \notin {Undefined, Str(<<>>)} => t.priority = query.priority

SatisfiesSearch(t, query) ==
  query.search \notin {Undefined, Str(<<>>)} =>
    TitleMatches(t, query.search) \/ DescriptionMatches(t, query.search)

\* C7: list returns exactly the stored tasks that satisfy every filter that
\* is present, in the order of the collection; that is the intersection of the
\* results of the four single-filter lists; with no filter it is the whole
\* collection.
C7_FiltersCombineWithAnd ==
  req.op = "list" =>
    /\ res.status = StatusOk
    /\ res.tasks = SelectSeq(tasks, LAMBDA t :
         /\ SatisfiesCompleted(t, req.query)
         /\ SatisfiesCategory(t, req.query)
         /\ SatisfiesPriority(t, req.query)
         /\ SatisfiesSearch(t, req.query))
    /\ res.tasks = SelectSeq(tasks, LAMBDA t :
         /\ InList(t, FilteredTasks(tasks, [EmptyQuery EXCEPT !.completed = req.query.completed]))
         /\ InList(t, FilteredTasks(tasks, [EmptyQuery EXCEPT !.category = req.query.category]))
         /\ InList(t, FilteredTasks(tasks, [EmptyQuery EXCEPT !.priority = req.query.priority]))
         /\ InList(t, FilteredTasks(tasks, [EmptyQuery EXCEPT !.search = req.query.search])))
    /\ req.query = EmptyQuery => res.tasks = tasks

\* A list with all four filters present has returned some of the tasks and
\* left out others.
C7_Witness ==
  /\ req.op = "list"
  /\ req.query.completed # Undefined
  /\ req.query.category = Work
  /\ req.query.priority = High
  /\ Truthy(req.query.search)
  /\ Len(res.tasks) > 0
  /\ Len(res.tasks) < Len(tasks)

\* C8: with a search filter, a task that passes the other filters is returned
\* if and only if the lower-cased term is a substring of its lower-cased title
\* or of its lower-cased description; a task without a description is
\* returned only when its title matches.
C8_SearchIsCaseInsensitive ==
  (req.op = "list" /\ Truthy(req.query.search)) =>
    \A i \in 1..Len(tasks) :
      (/\ SatisfiesCompleted(tasks[i], req.query)
       /\ SatisfiesCategory(tasks[i], req.query)
       /\ SatisfiesPriority(tasks[i], req.query))
      => /\ InList(tasks[i], res.tasks) <=>
              \/ TitleMatches(tasks[i], req.query.search)
              \/ DescriptionMatches(tasks[i], req.query.search)
         /\ tasks[i].description = Undefined =>
              (InList(tasks[i], res.tasks) <=> TitleMatches(tasks[i], req.query.search))

\* A search with an upper-case term has returned a task on its description
\* alone, which holds the term in the other case, and left out a task without
\* a description whose title does not match.
C8_Witness ==
  /\ req.op = "list"
  /\ req.query = [EmptyQuery EXCEPT !.search = Str(<<"B">>)]
  /\ \E k \in 1..Len(res.tasks) :
       res.tasks[k].title = Str(<<"c">>) /\ res.tasks[k].description = Str(<<"b", "A">>)
  /\ \E i \in 1..Len(tasks) :
       tasks[i].description = Undefined /\ ~InList(tasks[i], res.tasks)

\* C9: list never fails: whatever the store and the filters, also a category
\* or a priority outside the enumerations and a search term that matches
\* nothing, the response is a success that carries a task sequence.
C9_ListNeverFails ==
  req.op = "list" =>
    /\ res.status = StatusOk
    /\ res.kind = "tasks"
    /\ res.code = ""
    /\ \A k \in 1..Len(res.tasks) : InList(res.tasks[k], tasks)

\* Lists of a store that holds a task without a description have returned the
\* empty sequence: for a category outside the enumeration, and for a search
\* term that matches nothing.
C9_Witness ==
  /\ req.op = "list"
  /\ \/ req.query.category = Urgent
     \/ req.query.search = Str(<<"z">>)
  /\ res.status = StatusOk
  /\ res.tasks = <<>>
  /\ \E i \in 1..Len(tasks) : tasks[i].description = Undefined

\* ---- create
\* C11: the task a successful create stores and returns has the trimmed title
\* of the input, its trimmed description or none when it has none, completed
\* false also when the input carries a completed value, the category of the
\* input or personal, its priority or medium, and createdAt = updatedAt.
C11_CreatedTaskFields ==
  (req.op = "create" /\ res.status = StatusCreated) =>
    /\ Len(tasks) > 0
    /\ res.tasks = <<tasks[Len(tasks)]>>
    /\ res.tasks[1].title = Str(Trim(req.body.title.s))
    /\ res.tasks[1].description =
         IF req.body.description = Undefined THEN Undefined
         ELSE Str(Trim(req.body.description.s))
    /\ res.tasks[1].completed = Bool(FALSE)
    /\ res.tasks[1].category =
         IF req.body.category = Undefined THEN Personal ELSE req.body.category
    /\ res.tasks[1].priority =
         IF req.body.priority = Undefined THEN Medium ELSE req.body.priority
    /\ res.tasks[1].createdAt = res.tasks[1].updatedAt

\* A create whose input has a title and a description in whitespace and a
\* completed flag that is true has succeeded with the defaults.
C11_Witness ==
  /\ req.op = "create"
  /\ res.status = StatusCreated
  /\ req.body.completed = Bool(TRUE)
  /\ Trim(req.body.title.s) # req.body.title.s
  /\ IsString(req.body.description)
  /\ Trim(req.body.description.s) # req.body.description.s
  /\ req.body.category = Undefined
  /\ res.tasks[1].category = Personal
  /\ res.tasks[1].priority = Medium

\* C12: a successful create adds exactly one task, at the end, and leaves the
\* tasks before it as they were; a successful update keeps every task at its
\* position; so the collection, and the list without filters that returns it,
\* is in the order of creation.
C12_CreateAppendsInOrder ==
  /\ [][/\ (now' = now /\ req'.op = "create" /\ res'.status = StatusCreated)
            => /\ Len(tasks') = Len(tasks) + 1
               /\ SubSeq(tasks', 1, Len(tasks)) = tasks
               /\ tasks'[Len(tasks')] = res'.tasks[1]
        /\ (now' = now /\ req'.op = "update" /\ res'.status = StatusOk)
            => /\ Len(tasks') = Len(tasks)
               /\ \A i \in 1..Len(tasks) : tasks'[i].id = tasks[i].id]_vars
  /\ [](/\ \A i, j \in 1..Len(tasks) :
             i < j => /\ tasks[i].id < tasks[j].id
                      /\ tasks[i].createdAt <= tasks[j].createdAt
        /\ (req.op = "list" /\ req.query = EmptyQuery) => res.tasks = tasks)

\* A list without filters has returned two tasks created at different
\* instants, the first of which was updated when the second existed.
C12_Witness ==
  /\ req.op = "list"
  /\ Len(res.tasks) = 2
  /\ res.tasks[1].updatedAt > res.tasks[1].createdAt
  /\ res.tasks[1].updatedAt >= res.tasks[2].createdAt
  /\ res.tasks[1].createdAt < res.tasks[2].createdAt

\* ---- validation
IsValidationFailure(r) ==
  r.kind = "error" /\ r.status = StatusBadRequest /\ r.code = "VALIDATION_ERROR"

TitleMessages ==
  {"Title is required", "Title cannot be empty", "Title must not exceed 200 characters"}

\* The fields after the title are absent or pass their rules.
DescriptionAcceptable(body) ==
  \/ body.description = Undefined
  \/ (IsString(body.description) /\ Len(body.description.s) <= MaxDescriptionLength)

EnumerationsAcceptable(body) ==
  /\ body.category \in {Undefined, Work, Personal, Other}
  /\ body.priority \in {Undefined, Low, Medium, High}

\* C13: create fails with ValidationError when the title is absent, when it
\* is empty after trimming and when it is longer than 200 characters after
\* trimming; a title of 1 to 200 characters after trimming, whatever
\* whitespace surrounds it, is not rejected, and the create succeeds when the
\* other fields are valid.
C13_CreateTitleRules ==
  req.op = "create" =>
    /\ req.body.title = Undefined => IsValidationFailure(res)
    /\ (IsString(req.body.title) /\ Len(Trim(req.body.title.s)) = 0)
         => IsValidationFailure(res)
    /\ (IsString(req.body.title) /\ Len(Trim(req.body.title.s)) > MaxTitleLength)
         => IsValidationFailure(res) /\ res.message \in TitleMessages
    /\ (IsString(req.body.title) /\ Len(Trim(req.body.title.s)) \in 1..MaxTitleLength)
         => /\ res.message \notin TitleMessages
            /\ (DescriptionAcceptable(req.body) /\ EnumerationsAcceptable(req.body))
                 => res.status = StatusCreated

\* A create whose title has 200 characters between two spaces has succeeded.
C13_Witness ==
  /\ req.op = "create"
  /\ Len(req.body.title.s) = MaxTitleLength + 2
  /\ Len(Trim(req.body.title.s)) = MaxTitleLength
  /\ res.status = StatusCreated
  /\ Len(res.tasks[1].title.s) = MaxTitleLength

\* The title of a create or of an update passes the title rules.
TitleAcceptable(op, body) ==
  \/ (op = "update" /\ body.title = Undefined)
  \/ (IsString(body.title) /\ Len(Trim(body.title.s)) \in 1..MaxTitleLength)

\* The request is a create, or an update of a task that is in the collection
\* (an update looks its task up before it validates).
ReachesValidation(list, r) ==
  \/ r.op = "create"
  \/ (r.op = "update" /\ FindIndex(list, r.id) # 0)

DescriptionMessage == "Description must not exceed 1000 characters"

\* C14: a create, or an update of a task in the collection, whose title passes
\* and whose description is a string, is rejected with ValidationError for
\* the description exactly when the string as sent, untrimmed, is longer than
\* 1000 characters: 1000 characters pass, and 1000 characters followed by a
\* space are rejected and nothing is stored.
C14_DescriptionRawLength ==
  [][(/\ ReachesValidation(tasks, req')
      /\ TitleAcceptable(req'.op, req'.body)
      /\ IsString(req'.body.description))
       => /\ Len(req'.body.description.s) > MaxDescriptionLength
               => /\ IsValidationFailure(res')
                  /\ res'.message = DescriptionMessage
                  /\ tasks' = tasks
          /\ Len(req'.body.description.s) <= MaxDescriptionLength
               => /\ res'.message # DescriptionMessage
                  /\ EnumerationsAcceptable(req'.body)
                       => /\ res'.kind # "error"
                          /\ \E i \in 1..Len(tasks') :
                               tasks'[i].description
                                 = Str(Trim(req'.body.description.s))]_vars

\* A task holds a description of 1000 characters, and an update of it with
\* 1000 characters and a space has been rejected.
C14_Witness ==
  /\ req.op = "update"
  /\ IsString(req.body.description)
  /\ Len(req.body.description.s) = MaxDescriptionLength + 1
  /\ Len(Trim(req.body.description.s)) = MaxDescriptionLength
  /\ IsValidationFailure(res)
  /\ res.message = DescriptionMessage
  /\ \E i \in 1..Len(tasks) :
       /\ tasks[i].id = req.id
       /\ Len(tasks[i].description.s) = MaxDescriptionLength

\* The title and the description are absent or strings, as the input type
\* declares them.
TextFieldsTyped(body) ==
  /\ (body.title = Undefined \/ IsString(body.title))
  /\ (body.description = Undefined \/ IsString(body.description))

\* C15: a create, or an update of a task in the collection, whose category is
\* present and is not work, personal or other, or whose priority is present
\* and is not low, medium or high, fails with ValidationError and leaves the
\* collection as it was.
C15_InvalidEnumerationRejected ==
  [][(/\ ReachesValidation(tasks, req')
      /\ TextFieldsTyped(req'.body)
      /\ ~EnumerationsAcceptable(req'.body))
       => /\ IsValidationFailure(res')
          /\ tasks' = tasks
          /\ nextId' = nextId]_vars

\* An update of a task in the collection whose priority is a category name
\* has been rejected for its priority.
C15_Witness ==
  /\ req.op = "update"
  /\ FindIndex(tasks, req.id) # 0
  /\ req.body.priority = Work
  /\ req.body.category = Undefined
  /\ IsValidationFailure(res)
  /\ res.message = "Priority must be low, medium, or high"

\* C16: a successful update changes, on the task with the request's id, only
\* the fields present in the patch and updatedAt: id, createdAt and every
\* field absent from the patch keep their values, a field present takes the
\* patch's value, and every other task of the collection is unchanged.
C16_UpdateFrame ==
  [][(req'.op = "update" /\ res'.status = StatusOk)
       => LET i == FindIndex(tasks, req'.id)
              patch == req'.body
          IN  /\ i # 0
              /\ Len(tasks') = Len(tasks)
              /\ \A j \in 1..Len(tasks) : j # i => tasks'[j] = tasks[j]
              /\ tasks'[i].id = tasks[i].id
              /\ tasks'[i].createdAt = tasks[i].createdAt
              /\ tasks'[i].title
                   = IF patch.title = Undefined THEN tasks[i].title
                     ELSE Str(Trim(patch.title.s))
              /\ tasks'[i].description
                   = IF patch.description = Undefined THEN tasks[i].description
                     ELSE Str(Trim(patch.description.s))
              /\ tasks'[i].completed
                   = IF patch.completed = Undefined THEN tasks[i].completed
                     ELSE patch.completed
              /\ tasks'[i].category
                   = IF patch.category = Undefined THEN tasks[i].category
                     ELSE patch.category
              /\ tasks'[i].priority
                   = IF patch.priority = Undefined THEN tasks[i].priority
                     ELSE patch.priority
              /\ res'.tasks = <<tasks'[i]>>]_vars

\* Of two tasks, the one that is work and high has been completed by a patch
\* of the completed flag alone, and is still work and high under its title.
C16_Witness ==
  /\ req.op = "update"
  /\ res.status = StatusOk
  /\ req.body = [EmptyBody EXCEPT !.completed = Bool(TRUE)]
  /\ Len(tasks) = 2
  /\ res.tasks[1].completed = Bool(TRUE)
  /\ res.tasks[1].category = Work
  /\ res.tasks[1].priority = High
  /\ res.tasks[1].title = Str(<<"A", "b">>)
  /\ \E j \in 1..Len(tasks) : tasks[j].id # req.id /\ tasks[j].completed = Bool(FALSE)

\* C17: a successful update sets the task's updatedAt to the time of the
\* update, also when the patch is empty or repeats the stored values; a
\* failed update, a read of one task, a listing and the passing of time leave
\* the updatedAt of every task as it was.
C17_UpdatedAtRefresh ==
  [][/\ (now' = now /\ req'.op = "update" /\ res'.status = StatusOk)
          => /\ FindIndex(tasks, req'.id) # 0
             /\ tasks'[FindIndex(tasks, req'.id)].updatedAt = now
             /\ res'.tasks[1].updatedAt = now
     /\ (\/ now' # now
         \/ (req'.op = "update" /\ res'.kind = "error")
         \/ req'.op \in {"get", "list"})
          => /\ Len(tasks') = Len(tasks)
             /\ \A i \in 1..Len(tasks) :
                  /\ tasks'[i].id = tasks[i].id
                  /\ tasks'[i].updatedAt = tasks[i].updatedAt]_vars

\* A task created at an earlier instant has been updated with the empty
\* patch, and its updatedAt is the present instant.
C17_Witness ==
  /\ req.op = "update"
  /\ req.body = EmptyBody
  /\ res.status = StatusOk
  /\ res.tasks[1].updatedAt = now
  /\ res.tasks[1].createdAt < now
  /\ tasks[FindIndex(tasks, req.id)] = res.tasks[1]

\* C18: an update of a task in the collection is validated as a create is,
\* except that its title may be absent: without a title it succeeds when its
\* other fields are valid; with a title that is empty, blank or longer than
\* 200 characters after trimming it fails with ValidationError and changes
\* nothing; and a body with a title passes the validation of an update
\* exactly when it passes the validation of a create.
C18_UpdateValidation ==
  [][(/\ req'.op = "update"
      /\ FindIndex(tasks, req'.id) # 0
      /\ TextFieldsTyped(req'.body))
       => /\ (/\ req'.body.title = Undefined
              /\ DescriptionAcceptable(req'.body)
              /\ EnumerationsAcceptable(req'.body))
               => /\ res'.status = StatusOk
                  /\ res'.tasks[1].title = tasks[FindIndex(tasks, req'.id)].title
          /\ (/\ IsString(req'.body.title)
              /\ Len(Trim(req'.body.title.s)) \notin 1..MaxTitleLength)
               => /\ IsValidationFailure(res')
                  /\ res'.message \in TitleMessages
                  /\ tasks' = tasks
          /\ req'.body.title # Undefined
               => (validateTaskInput(req'.body, TRUE) = NoError
                     <=> validateTaskInput(req'.body, FALSE) = NoError)]_vars

\* A patch of the completed flag alone, without a title, has been applied.
C18_Witness ==
  /\ req.op = "update"
  /\ req.body = [EmptyBody EXCEPT !.completed = Bool(TRUE)]
  /\ res.status = StatusOk
  /\ res.tasks[1].completed = Bool(TRUE)
  /\ Len(res.tasks[1].title.s) > 0

CountWhere(P(_)) == Cardinality({i \in 1..Len(tasks) : P(tasks[i])})

\* C20: the statistics of the collection: total is its size, completed is
\* the number of tasks whose completed is true, active is total minus
\* completed, and byCategory and byPriority hold, under each of their three
\* keys, the number of tasks with that value, zero included.
C20_StatsCounts ==
  req.op = "stats" =>
    /\ res.status = StatusOk
    /\ Len(res.stats) = 1
    /\ res.stats[1].total = Len(tasks)
    /\ res.stats[1].completed = CountWhere(LAMBDA t : t.completed = Bool(TRUE))
    /\ res.stats[1].active = res.stats[1].total - res.stats[1].completed
    /\ DOMAIN res.stats[1].byCategory = validCategories
    /\ \A c \in validCategories :
         res.stats[1].byCategory[c] = CountWhere(LAMBDA t : t.category = Str(c))
    /\ DOMAIN res.stats[1].byPriority = validPriorities
    /\ \A p \in validPriorities :
         res.stats[1].byPriority[p] = CountWhere(LAMBDA t : t.priority = Str(p))

\* What the statistics do satisfy: the same with completed counting the tasks
\* whose completed is truthy.
StatsCountTruthy ==
  req.op = "stats" =>
    /\ res.status = StatusOk
    /\ Len(res.stats) = 1
    /\ res.stats[1].total = Len(tasks)
    /\ res.stats[1].completed = CountWhere(LAMBDA t : Truthy(t.completed))
    /\ res.stats[1].active = res.stats[1].total - res.stats[1].completed
    /\ DOMAIN res.stats[1].byCategory = validCategories
    /\ \A c \in validCategories :
         res.stats[1].byCategory[c] = CountWhere(LAMBDA t : t.category = Str(c))
    /\ DOMAIN res.stats[1].byPriority = validPriorities
    /\ \A p \in validPriorities :
         res.stats[1].byPriority[p] = CountWhere(LAMBDA t : t.priority = Str(p))

\* ---- reads
ReadOps == {"list", "get", "stats"}

\* C21: a listing, a read of one task and the statistics leave the
\* collection and the id generator as they were, and a read that repeats the
\* request before it, with no other request in between, is answered as that
\* one was.
C21_ReadsAreStable ==
  [][req'.op \in ReadOps
       => /\ tasks' = tasks
          /\ nextId' = nextId
          /\ (req' = req => res' = res)]_vars

\* A filtered listing has left out a task of a collection of two, which are
\* both still stored.
C21_Witness ==
  /\ req.op = "list"
  /\ res.status = StatusOk
  /\ Len(res.tasks) = 1
  /\ Len(tasks) = 2
  /\ req.query.category = Work

\* ---- errors
ErrorClasses ==
  { <<StatusNotFound, "TASK_NOT_FOUND">>,
    <<StatusBadRequest, "VALIDATION_ERROR">>,
    <<StatusInternal, "INTERNAL_ERROR">> }

\* C22: a failing request is answered with an error that has a message and
\* a code, of one of three classes: 404 TASK_NOT_FOUND when the task is not
\* in the collection, 400 VALIDATION_ERROR when a validation rule fails, and
\* 500 INTERNAL_ERROR when the handler fails otherwise (here: a description
\* that is a number, which has no trim).
C22_ErrorClasses ==
  /\ [](/\ res.kind = "error" <=> res.status >= StatusBadRequest
        /\ res.kind = "error"
             => /\ res.message # ""
                /\ <<res.status, res.code>> \in ErrorClasses)
  /\ [][/\ (req'.op \in {"update", "delete", "get"} /\ FindIndex(tasks, req'.id) = 0)
             => /\ res'.kind = "error"
                /\ <<res'.status, res'.code>> = <<StatusNotFound, "TASK_NOT_FOUND">>
        /\ (/\ ReachesValidation(tasks, req')
            /\ TextFieldsTyped(req'.body)
            /\ \/ ~TitleAcceptable(req'.op, req'.body)
               \/ ~DescriptionAcceptable(req'.body)
               \/ ~EnumerationsAcceptable(req'.body))
             => /\ res'.kind = "error"
                /\ <<res'.status, res'.code>> = <<StatusBadRequest, "VALIDATION_ERROR">>
        /\ (/\ ReachesValidation(tasks, req')
            /\ TitleAcceptable(req'.op, req'.body)
            /\ EnumerationsAcceptable(req'.body)
            /\ req'.body.description.type = "number")
             => /\ res'.kind = "error"
                /\ <<res'.status, res'.code>> = <<StatusInternal, "INTERNAL_ERROR">>]_vars

\* An update of a task in the collection with a description that is a number
\* has been answered 500 INTERNAL_ERROR.
C22_Witness ==
  /\ req.op = "update"
  /\ FindIndex(tasks, req.id) # 0
  /\ req.body.description.type = "number"
  /\ res.kind = "error"
  /\ res.status = StatusInternal
  /\ res.code = "INTERNAL_ERROR"
  /\ res.message # ""

\* C25: in every state of the store, the completed count of the statistics
\* is the length of the listing filtered by completed=true, the active count
\* is the length of the listing filtered by completed=false, and the two
\* listings together hold every task once.
C25_StatsMatchLists ==
  LET done == FilteredTasks(tasks, [EmptyQuery EXCEPT !.completed = True])
      open == FilteredTasks(tasks, [EmptyQuery EXCEPT !.completed = False])
  IN  /\ calculateStats(tasks).completed = Len(done)
      /\ calculateStats(tasks).active = Len(open)
      /\ Len(done) + Len(open) = Len(tasks)
      /\ \A i \in 1..Len(tasks) : InList(tasks[i], done) # InList(tasks[i], open)

\* C27: an update of an id that is not in the collection fails with NotFound
\* whatever its patch holds, a patch that fails validation included, and
\* changes nothing; an update answered with ValidationError named an id that
\* is in the collection.
C27_ExistenceBeforeValidation ==
  [][/\ (req'.op = "update" /\ FindIndex(tasks, req'.id) = 0)
          => /\ res'.kind = "error"
             /\ res'.status = StatusNotFound
             /\ res'.code = "TASK_NOT_FOUND"
             /\ tasks' = tasks
     /\ (req'.op = "update" /\ IsValidationFailure(res'))
          => FindIndex(tasks, req'.id) # 0]_vars

\* An update with a category outside the enumeration, of an id that is not
\* in the collection, has been answered NotFound.
C27_Witness ==
  /\ req.op = "update"
  /\ FindIndex(tasks, req.id) = 0
  /\ req.body.category = Urgent
  /\ res.status = StatusNotFound
  /\ res.code = "TASK_NOT_FOUND"

\* ---- the order of the rules
\* The six rules, each by itself, in the order of the claim.
RuleViolated(k, body, isUpdate) ==
  CASE k = 1 -> ~isUpdate /\ (body.title = Undefined \/ body.title = Str(<<>>))
    [] k = 2 -> IsString(body.title) /\ Len(Trim(body.title.s)) = 0
    [] k = 3 -> IsString(body.title) /\ Len(Trim(body.title.s)) > MaxTitleLength
    [] k = 4 -> IsString(body.description)
                  /\ Len(body.description.s) > MaxDescriptionLength
    [] k = 5 -> body.category \notin {Undefined, Work, Personal, Other}
    [] k = 6 -> body.priority \notin {Undefined, Low, Medium, High}

RuleMessages ==
  << "Title is required",
     "Title cannot be empty",
     "Title must not exceed 200 characters",
     "Description must not exceed 1000 characters",
     "Category must be work, personal, or other",
     "Priority must be low, medium, or high" >>

ViolatedRules(body, isUpdate) == {k \in 1..6 : RuleViolated(k, body, isUpdate)}

FirstViolated(body, isUpdate) ==
  CHOOSE k \in ViolatedRules(body, isUpdate) :
    \A j \in ViolatedRules(body, isUpdate) : k <= j

\* C28: a create, or an update of a task in the collection, whose body breaks
\* one or more of the six rules is answered with ValidationError and the
\* message of the earliest broken rule in the order title required, title
\* empty, title too long, description too long, category, priority; a body
\* that breaks none is not answered with ValidationError.
C28_FirstFailingRule ==
  [][(ReachesValidation(tasks, req') /\ TextFieldsTyped(req'.body))
       => IF ViolatedRules(req'.body, req'.op = "update") = {}
          THEN res'.kind # "error"
          ELSE /\ IsValidationFailure(res')
               /\ res'.message
                    = RuleMessages[FirstViolated(req'.body, req'.op = "update")]]_vars

\* A create that breaks the description, category and priority rules under a
\* valid title has been answered with the description's message.
C28_Witness ==
  /\ req.op = "create"
  /\ ViolatedRules(req.body, FALSE) = {4, 5, 6}
  /\ IsValidationFailure(res)
  /\ res.message = RuleMessages[4]

\* ---- resetStore
ZeroStats ==
  [total |-> 0, completed |-> 0, active |-> 0,
   byCategory |-> [c \in validCategories |-> 0],
   byPriority |-> [p \in validPriorities |-> 0]]

\* C30: resetStore leaves the collection empty whatever it held, and on the
\* empty collection a listing returns the empty sequence, the statistics are
\* all zero under every key, and a read of any id, the ids stored before
\* included, fails with NotFound.
C30_ResetEmptiesStore ==
  /\ [][resetStore => (tasks' = <<>> /\ nextId' = nextId)]_vars
  /\ [][(tasks = <<>> /\ List(EmptyQuery))
          => (res'.status = StatusOk /\ res'.tasks = <<>>)]_vars
  /\ [][(tasks = <<>> /\ Stats)
          => (res'.status = StatusOk /\ res'.stats = <<ZeroStats>>)]_vars
  /\ [][(tasks = <<>> /\ \E id \in Ids : GetById(id))
          => (res'.status = StatusNotFound /\ res'.code = "TASK_NOT_FOUND")]_vars

\* Two tasks were created, the store was reset, and a read of the first id
\* has failed with NotFound.
C30_Witness ==
  /\ nextId = 3
  /\ tasks = <<>>
  /\ deleted = {}
  /\ req.op = "get"
  /\ req.id = 1
  /\ res.status = StatusNotFound

\* ---- the page
AllSettled == \A k \in 1..Len(calls) : calls[k].stage = "settled"

\* C26: once every toggle of the page has settled, the completed value the
\* page displays for a task that the server stores is the stored one.
C26_DisplayedIsStored ==
  (~page.loading /\ AllSettled)
    => \A i \in 1..Len(page.tasks) :
         FindIndex(tasks, page.tasks[i].id) # 0
           => page.tasks[i].completed
                = tasks[FindIndex(tasks, page.tasks[i].id)].completed

\* The other displayed tasks, and the order of the display, are as before.
OthersDisplayedUnchanged(id) ==
  /\ Len(page'.tasks) = Len(page.tasks)
  /\ \A i \in 1..Len(page.tasks) :
       IF page.tasks[i].id = id
       THEN page'.tasks[i] = [page.tasks[i] EXCEPT !.completed = page'.tasks[i].completed]
       ELSE page'.tasks[i] = page.tasks[i]

\* C23: a toggle flips the displayed completed value of its task at once,
\* with its update request only sent and the server untouched; when that
\* request is rejected the displayed value becomes the one displayed before
\* the toggle and the error message of the rejection is shown; in both steps
\* every other displayed task is unchanged.
C23_ToggleAndRollback ==
  /\ [][\A id \in ToggleIds :
          handleToggleTask(id)
            => LET i == FindIndex(page.tasks, id)
               IN  /\ page'.tasks[i].completed = Bool(~Truthy(page.tasks[i].completed))
                   /\ OthersDisplayedUnchanged(id)
                   /\ calls'[Len(calls')].stage = "sent"
                   /\ calls'[Len(calls')].previousCompleted = page.tasks[i].completed
                   /\ calls'[Len(calls')].body.completed = page'.tasks[i].completed
                   /\ tasks' = tasks]_vars
  /\ [][\A k \in 1..MaxCalls :
          ToggleRejected(k)
            => LET i == FindIndex(page.tasks, calls[k].id)
               IN  /\ page'.tasks[i].completed = calls[k].previousCompleted
                   /\ OthersDisplayedUnchanged(calls[k].id)
                   /\ page'.error # ""
                   /\ page'.error = calls[k].message
                   /\ tasks' = tasks]_vars
  /\ [](Len(calls) = 1 /\ calls[1].stage \in {"sent", "fulfilled", "rejected"}
          => page.tasks[FindIndex(page.tasks, calls[1].id)].completed
               = calls[1].body.completed)

\* Of two displayed tasks the first was toggled once, its request was
\* rejected, and it is displayed as not completed again under the message.
C23_Witness ==
  /\ Len(page.tasks) = 2
  /\ Len(calls) = 1
  /\ calls[1].stage = "settled"
  /\ calls[1].previousCompleted = Bool(FALSE)
  /\ page.tasks[1].completed = Bool(FALSE)
  /\ page.error = "Network error"

\* ---- the form
\* The form's rules, each by itself.
FormFieldsValid ==
  /\ Len(Trim(form.title)) \in 1..MaxTitleLength
  /\ Len(Trim(form.description)) <= MaxDescriptionLength

CreateTaskPending == \E k \in 1..Len(calls) : calls[k].fn = "createTask"

\* C24: a submit of fields that fail the form's rules calls createTask not
\* at all, and a submit of fields that pass calls it once and sets the
\* submitting flag; when the call is fulfilled the fields are cleared and
\* onTaskCreated is called; when it is rejected the fields are kept, the
\* message is shown and onTaskCreated is not called; onTaskCreated is called
\* at no other step; and the submitting flag is set exactly while the call
\* is pending.
C24_FormSubmission ==
  /\ [][handleSubmit
          => IF FormFieldsValid
             THEN /\ Len(calls') = Len(calls) + 1
                  /\ calls'[Len(calls')].fn = "createTask"
                  /\ form'.isSubmitting
             ELSE /\ calls' = calls
                  /\ ~form'.isSubmitting
                  /\ form'.validationErrors # [title |-> "", description |-> ""]]_vars
  /\ [][\A k \in 1..MaxCalls :
          SubmitFulfilled(k)
            => /\ form'.created = form.created + 1
               /\ form'.title = <<>>
               /\ form'.description = <<>>
               /\ ~form'.isSubmitting]_vars
  /\ [][\A k \in 1..MaxCalls :
          SubmitRejected(k)
            => /\ form'.created = form.created
               /\ form'.title = form.title
               /\ form'.description = form.description
               /\ form'.error # ""
               /\ ~form'.isSubmitting]_vars
  /\ [][form'.created # form.created => \E k \in 1..MaxCalls : SubmitFulfilled(k)]_vars
  /\ [](form.isSubmitting <=> CreateTaskPending)

\* After one task was created through the form, a second submission, of a
\* title and a description that pass once trimmed, was rejected, and its
\* fields are kept under the message.
C24_Witness ==
  /\ form.created = 1
  /\ ~form.isSubmitting
  /\ form.error = "Network error"
  /\ Len(Trim(form.title)) = MaxTitleLength
  /\ Len(form.description) = MaxDescriptionLength + 1
  /\ calls = <<>>

\* C29: every payload the form passes to createTask has a title of 1 to 200
\* characters with nothing to trim and a description that is absent or has 1
\* to 1000 characters; the server's validation of a create accepts it, and
\* the server answers its POST with 201, never with ValidationError.
C29_ClientStricterThanServer ==
  /\ [](\A k \in 1..Len(calls) :
          calls[k].fn = "createTask"
            => /\ Len(calls[k].body.title.s) \in 1..MaxTitleLength
               /\ Trim(calls[k].body.title.s) = calls[k].body.title.s
               /\ \/ calls[k].body.description = Undefined
                  \/ Len(calls[k].body.description.s) \in 1..MaxDescriptionLength
               /\ validateTaskInput(calls[k].body, FALSE) = NoError)
  /\ [][\A k \in 1..MaxCalls :
          PostArrives(k, MaxInputId)
            => /\ res'.code # "VALIDATION_ERROR"
               /\ res'.status = StatusCreated]_vars

\* The server has created the task of a form whose title has 200 characters
\* between two spaces and whose description has 1000 characters and a space.
C29_Witness ==
  /\ form.isSubmitting
  /\ Len(form.title) = MaxTitleLength + 2
  /\ Len(form.description) = MaxDescriptionLength + 1
  /\ req.op = "create"
  /\ res.status = StatusCreated
  /\ Len(res.tasks[1].title.s) = MaxTitleLength
  /\ Len(res.tasks[1].description.s) = MaxDescriptionLength
  /\ \E k \in 1..Len(calls) : calls[k].stage = "fulfilled"

====
